---- MODULE Spec2Model ----
(***************************************************************************)
(* HTTP/2 codec of requests-http2-adapter: the HPACK index table           *)
(* (http2-adapter/hpack.py), the frame header codec and the frame payload  *)
(* codecs (http2-adapter/frame.py), and the Huffman coder, as state        *)
(* machines.                                                               *)
(*                                                                         *)
(* A Python list is a TLA+ sequence: Python index i is TLA+ index i + 1.   *)
(* A header is a pair <<name, value>> of strings.  A call's outcome is a   *)
(* record: ok, the exception's class name in err when it raised, and the   *)
(* value it returned.                                                      *)
(***************************************************************************)
EXTENDS Integers, Sequences, FiniteSets, TLC

VARIABLES
    dynamic,                 \* HTTP2Hpack.__dynamic
    dynamic_table_size,      \* HTTP2Hpack.__dynamic_table_size
    max_dynamic_table_size,  \* HTTP2Hpack.__max_dynamic_table_size
    last,                    \* the last call on the table and its outcome
    pc,                      \* where a thread inside append_header stands
    pending,                 \* that call's header and the table it found
    seen,                    \* a second thread's read since the writer's last step
    built,                   \* outcome of the last HTTP2FrameHeader(...)
    wire,                    \* the octets serialized or received
    parsed,                  \* outcome of parse_frame_header(wire)
    asked,                   \* the flags given to the last HTTP2FrameHeader(...)
    call,                    \* the last frame constructor or parse_frame call
    frame,                   \* that call's outcome: the frame object or the error
    serialized,              \* outcome of serialize() on that frame
    huff,                    \* the Huffman coder's last text, code and decoding
    peer                     \* a second table built from the same list, and that list

tableVars == <<dynamic, dynamic_table_size, max_dynamic_table_size>>

threadVars == <<pc, pending, seen>>

frameVars == <<built, wire, parsed, asked>>

payloadVars == <<call, frame, serialized>>

vars == <<dynamic, dynamic_table_size, max_dynamic_table_size, last,
          pc, pending, seen, built, wire, parsed, asked,
          call, frame, serialized, huff, peer>>

(***************************************************************************)
(* Bounds of the model.                                                    *)
(***************************************************************************)
\* longest dynamic table an append_header may still grow
MaxDyn == 3
\* longest list handed to the constructor
MaxInitLen == 2

(***************************************************************************)
(* hpack.py: the static table.  The source lists 61 entries, one a line;   *)
(* line 20 lacks its trailing comma and line 36 its value and closing      *)
(* parenthesis.  The table is modelled as the 61 entries the lines list.   *)
(***************************************************************************)
hpack_static_table ==
    <<
       <<":authority", "">>,
       <<":method", "GET">>,
       <<":method", "POST">>,
       <<":path", "/">>,
       <<":path", "/index.html">>,
       <<":scheme", "http">>,
       <<":scheme", "https">>,
       <<":status", "200">>,
       <<":status", "204">>,
       <<":status", "206">>,
       <<":status", "304">>,
       <<":status", "400">>,
       <<":status", "404">>,
       <<":status", "500">>,
       <<"accept-charset", "">>,
       <<"accept-encoding", "gzip, deflate">>,
       <<"accept-language", "">>,
       <<"accept-ranges", "">>,
       <<"accept", "">>,
       <<"access-control-allow-origin", "">>,
       <<"age", "">>,
       <<"allow", "">>,
       <<"authorization", "">>,
       <<"cache-control", "">>,
       <<"content-disposition", "">>,
       <<"content-encoding", "">>,
       <<"content-language", "">>,
       <<"content-length", "">>,
       <<"content-location", "">>,
       <<"content-rang", "">>,
       <<"content-type", "">>,
       <<"cookie", "">>,
       <<"date", "">>,
       <<"etag", "">>,
       <<"expect", "">>,
       <<"expires", "">>,
       <<"from", "">>,
       <<"host", "">>,
       <<"if-match", "">>,
       <<"if-modified-since", "">>,
       <<"if-none-match", "">>,
       <<"if-rang", "">>,
       <<"if-unmodified-since", "">>,
       <<"last-modified", "">>,
       <<"link", "">>,
       <<"location", "">>,
       <<"max-forward", "">>,
       <<"proxy-authenticate", "">>,
       <<"proxy-authorization", "">>,
       <<"range", "">>,
       <<"referer", "">>,
       <<"refresh", "">>,
       <<"retry-after", "">>,
       <<"server", "">>,
       <<"set-cookie", "">>,
       <<"strict-transport-security", "">>,
       <<"transfer-encoding", "">>,
       <<"user-agent", "">>,
       <<"vary", "">>,
       <<"via", "">>,
       <<"www-authenticat", "">>
    >>

(***************************************************************************)
(* Outcomes of a call.                                                     *)
(***************************************************************************)
NoHeader == <<>>

Returned(v, f, o) == [ok |-> TRUE, err |-> "", val |-> v, flag |-> f, out |-> o]

Raised(e) == [ok |-> FALSE, err |-> e, val |-> NoHeader, flag |-> FALSE, out |-> <<>>]

(***************************************************************************)
(* Inputs of the model: the headers callers append, the maximum sizes a    *)
(* table is built with, and the indexes callers ask for.                   *)
(***************************************************************************)
Headers == { <<"a", "b">>, <<"cc", "dd">>, <<"x-trace-id", "012345">> }

MaxTableSizes == { 0, 34, 68, 70, 100 }

RECURSIVE SeqsUpTo(_, _)
SeqsUpTo(S, n) ==
    IF n = 0 THEN { <<>> }
    ELSE LET shorter == SeqsUpTo(S, n - 1)
         IN  shorter \cup { Append(s, x) : s \in shorter, x \in S }

(***************************************************************************)
(* hpack.py: the size of an entry, len(name) + len(value) + 32, and the    *)
(* sum the constructor accumulates over a list.                            *)
(***************************************************************************)
entry_size(item) == Len(item[1]) + Len(item[2]) + 32

RECURSIVE size_between(_, _, _)
size_between(dyn, lo, hi) ==
    IF lo > hi THEN 0
    ELSE IF lo = hi THEN entry_size(dyn[lo])
    ELSE LET mid == (lo + hi) \div 2
         IN  size_between(dyn, lo, mid) + size_between(dyn, mid + 1, hi)

table_size(dyn) == size_between(dyn, 1, Len(dyn))

\* Python's seq[index:] for 0 <= index
PySliceFrom(s, index) == SubSeq(s, index + 1, Len(s))

(***************************************************************************)
(* HTTP2Hpack.__init__(dynamic, max_dynamic_table_size); `dynamic or []`   *)
(* makes None an empty list.  The raise names HTTP2HpackError, which       *)
(* hpack.py never imports: it is a NameError.                              *)
(***************************************************************************)
hpack_init(dyn, max) ==
    LET size == table_size(dyn)
    IN  IF size > max
        THEN [ok |-> FALSE, err |-> "NameError",
              dynamic |-> dyn, dynamic_table_size |-> size, max |-> max]
        ELSE [ok |-> TRUE, err |-> "",
              dynamic |-> dyn, dynamic_table_size |-> size, max |-> max]

(***************************************************************************)
(* HTTP2Hpack.__check_dynamic_table(size): the loop of the last branch,    *)
(* as the number of leading items it counts before it breaks or runs out.  *)
(***************************************************************************)
RECURSIVE evict_loop(_, _, _, _, _)
evict_loop(dyn, index, temp, size, max) ==
    IF index = Len(dyn) THEN index
    ELSE LET temp2 == temp - entry_size(dyn[index + 1])
         IN  IF temp2 + size <= max THEN index + 1
             ELSE evict_loop(dyn, index + 1, temp2, size, max)

\* the oversize branch returning False with the table left as it was
check_dynamic_table_keep(dyn, cur, max, size) ==
    IF cur + size < max THEN [dynamic |-> dyn, ret |-> TRUE]
    ELSE IF size > max THEN [dynamic |-> dyn, ret |-> FALSE]
    ELSE [dynamic |-> PySliceFrom(dyn, evict_loop(dyn, 0, cur, size, max)),
          ret |-> TRUE]

check_dynamic_table(dyn, cur, max, size) ==
    IF cur + size < max THEN [dynamic |-> dyn, ret |-> TRUE]
    ELSE IF size > max THEN [dynamic |-> <<>>, ret |-> FALSE]
    ELSE [dynamic |-> PySliceFrom(dyn, evict_loop(dyn, 0, cur, size, max)),
          ret |-> TRUE]

(***************************************************************************)
(* HTTP2Hpack.append_header(header), for a header that is a tuple.         *)
(***************************************************************************)
append_header(dyn, cur, max, header) ==
    LET chk == check_dynamic_table(dyn, cur, max, 32 + Len(header[1]) + Len(header[2]))
    IN  [dynamic |-> IF chk.ret THEN Append(chk.dynamic, header) ELSE chk.dynamic,
         ret |-> chk.ret]

(***************************************************************************)
(* HTTP2Hpack.inside_index_table(header)                                   *)
(***************************************************************************)
inside_index_table(dyn, header) == \E i \in 1..Len(dyn) : dyn[i] = header

StaticLen == Len(hpack_static_table)

(***************************************************************************)
(* Python's integer operators | and & on naturals.                         *)
(***************************************************************************)
RECURSIVE BitOr(_, _)
BitOr(a, b) ==
    IF a = 0 THEN b
    ELSE IF b = 0 THEN a
    ELSE (IF a % 2 = 1 \/ b % 2 = 1 THEN 1 ELSE 0) + 2 * BitOr(a \div 2, b \div 2)

RECURSIVE BitAnd(_, _)
BitAnd(a, b) ==
    IF a = 0 \/ b = 0 THEN 0
    ELSE (IF a % 2 = 1 /\ b % 2 = 1 THEN 1 ELSE 0) + 2 * BitAnd(a \div 2, b \div 2)

(***************************************************************************)
(* HTTP2Hpack.encode_indexed(index): pack(">B", v) raises struct.error     *)
(* unless 0 <= v <= 255.                                                   *)
(***************************************************************************)
encode_indexed(dyn, index) ==
    IF index < 1 THEN Raised("HTTP2HpackEncodeError")
    ELSE IF index > Len(hpack_static_table) + Len(dyn)
    THEN Raised("HTTP2HpackEncodeError")
    ELSE LET v == BitOr(index, 128)
         IN  IF v > 255 THEN Raised("struct.error")
             ELSE Returned(NoHeader, FALSE, <<v>>)

(***************************************************************************)
(* HTTP2Hpack.decode_indexed(index).  A negative Python index counts from  *)
(* the end of the tuple, and raises IndexError below -len.                 *)
(***************************************************************************)
decode_indexed(dyn, index) ==
    LET i0 == index - 1
        n  == Len(hpack_static_table)
    IN  IF i0 < n
        THEN IF i0 >= 0 THEN Returned(hpack_static_table[i0 + 1], FALSE, <<>>)
             ELSE IF i0 >= 0 - n THEN Returned(hpack_static_table[n + i0 + 1], FALSE, <<>>)
             ELSE Raised("IndexError")
        ELSE LET i1 == i0 - n
             IN  IF i1 < Len(dyn) THEN Returned(dyn[i1 + 1], FALSE, <<>>)
                 ELSE Raised("HTTP2HpackDecodeError")

(***************************************************************************)
(* The table a connection owns: built by the constructor from a list and   *)
(* a maximum size the constructor accepts.                                 *)
(***************************************************************************)
NoCall == [op |-> "none", hdr |-> NoHeader, idx |-> 0, pre |-> <<>>,
           premax |-> 0, ret |-> Returned(NoHeader, FALSE, <<>>)]

Call(op, hdr, idx, ret) ==
    [op |-> op, hdr |-> hdr, idx |-> idx, pre |-> dynamic,
     premax |-> max_dynamic_table_size, ret |-> ret]

\* the ends of the static range, of Python's negative range, and the
\* dynamic range with one index past it
Indexes ==
    { 0 - 1 - Len(hpack_static_table), 0 - Len(hpack_static_table), 0 - 1, 0, 1, 2,
      Len(hpack_static_table) }
    \cup { Len(hpack_static_table) + k : k \in 1..(MaxDyn + 1) }

NoRead == [op |-> "none", hdr |-> NoHeader, idx |-> 0, during |-> FALSE,
           pre |-> <<>>, post |-> <<>>, ret |-> Returned(NoHeader, FALSE, <<>>)]

NoPending == [hdr |-> NoHeader, pre |-> <<>>]

NoFrameHeader == [type |-> 0, length |-> 0, sid |-> 0, flags |-> 0]

NotBuilt == [done |-> FALSE, ok |-> FALSE, err |-> "", hdr |-> NoFrameHeader]

ThreadsIdle == pc = "idle" /\ pending = NoPending /\ seen = NoRead

\* no HTTP2FrameHeader(...) call yet; of a call, the flags it was given and
\* whether its type, length and stream id passed their checks
NotAsked == [done |-> FALSE, flags |-> 0, valid |-> FALSE]

\* the error code or opaque value a frame holds: unpack() hands a tuple over
NoValue == [tuple |-> FALSE, top |-> 0, low31 |-> 0, digits |-> <<>>]

\* _pad=None
NoPad == << 0 - 1 >>

\* no frame object: attrs are the instance attributes the constructor stored
NoFrame ==
    [ok |-> FALSE, err |-> "", kind |-> "", hdr |-> NoFrameHeader, attrs |-> {},
     data |-> <<>>, pad |-> NoPad, depend |-> [top |-> 0, low31 |-> 0],
     weight |-> 0, excl |-> FALSE, code |-> NoValue, settings |-> <<>>,
     opaque |-> NoValue, header_block |-> <<>>]

NoFrameCall ==
    [op |-> "", hdr |-> NoFrameHeader, payload |-> <<>>,
     depend |-> [top |-> 0, low31 |-> 0], weight |-> 0, excl |-> FALSE,
     code |-> NoValue, settings |-> <<>>, opaque |-> NoValue,
     data |-> <<>>, pad |-> NoPad,
     headers |-> [dict |-> TRUE, items |-> <<>>],
     authority |-> "", path |-> "", method |-> ""]

NoOctets == [done |-> FALSE, ok |-> FALSE, err |-> "", out |-> <<>>]

NoHuffman ==
    [encoded |-> FALSE, text |-> <<>>, lower |-> FALSE, code |-> <<>>,
     decoded |-> FALSE, ok |-> FALSE, err |-> "", out |-> <<>>]

NoFrames ==
    /\ built = NotBuilt /\ wire = <<>> /\ parsed = NotBuilt /\ asked = NotAsked
    /\ call = NoFrameCall /\ frame = NoFrame /\ serialized = NoOctets
    /\ huff = NoHuffman

\* no second table, no caller holding the list
NoPeer ==
    [built |-> FALSE, supplied |-> <<>>, dynamic |-> <<>>, dynamic_table_size |-> 0,
     shares |-> [one |-> FALSE, two |-> FALSE], who |-> "none",
     pre |-> [supplied |-> <<>>, one |-> <<>>, two |-> <<>>]]

\* table = HTTP2Hpack(dyn, max), the constructor returning
Built(dyn, max) ==
    LET t == hpack_init(dyn, max)
    IN  /\ t.ok
        /\ dynamic = t.dynamic
        /\ dynamic_table_size = t.dynamic_table_size
        /\ max_dynamic_table_size = t.max
        /\ last = NoCall
        /\ peer = NoPeer

Init ==
    /\ \E dyn \in SeqsUpTo(Headers, MaxInitLen), max \in MaxTableSizes : Built(dyn, max)
    /\ ThreadsIdle
    /\ NoFrames

\* table.append_header(header)
AppendHeader ==
    \E header \in Headers :
        LET r == append_header(dynamic, dynamic_table_size,
                               max_dynamic_table_size, header)
        IN  /\ Len(r.dynamic) <= MaxDyn \/ Len(r.dynamic) <= Len(dynamic)
            /\ dynamic' = r.dynamic
            /\ last' = Call("append_header", header, 0, Returned(NoHeader, r.ret, <<>>))
            /\ UNCHANGED <<dynamic_table_size, max_dynamic_table_size>>
            /\ UNCHANGED <<threadVars, frameVars, payloadVars, huff, peer>>

\* table.decode_indexed(index)
DecodeIndexedIn(S) ==
    \E index \in S :
        /\ last' = Call("decode_indexed", NoHeader, index, decode_indexed(dynamic, index))
        /\ UNCHANGED <<dynamic, dynamic_table_size, max_dynamic_table_size>>
        /\ UNCHANGED <<threadVars, frameVars, payloadVars, huff, peer>>

\* table.encode_indexed(index)
EncodeIndexedIn(S) ==
    \E index \in S :
        /\ last' = Call("encode_indexed", NoHeader, index, encode_indexed(dynamic, index))
        /\ UNCHANGED <<dynamic, dynamic_table_size, max_dynamic_table_size>>
        /\ UNCHANGED <<threadVars, frameVars, payloadVars, huff, peer>>

DecodeIndexed == DecodeIndexedIn(Indexes)

EncodeIndexed == EncodeIndexedIn(Indexes)

\* table.inside_index_table(header)
InsideIndexTable ==
    \E header \in Headers :
        /\ last' = Call("inside_index_table", header, 0,
                        Returned(NoHeader, inside_index_table(dynamic, header), <<>>))
        /\ UNCHANGED <<dynamic, dynamic_table_size, max_dynamic_table_size>>
        /\ UNCHANGED <<threadVars, frameVars, payloadVars, huff, peer>>

\* HTTP2Hpack(dynamic, max) over the live entries: the one place the code
\* sets a table's maximum size.  When the constructor raises, the caller
\* keeps the table it had.
Construct ==
    \E max \in MaxTableSizes :
        LET t == hpack_init(dynamic, max)
        IN  /\ last' = Call("init", NoHeader, max,
                            IF t.ok THEN Returned(NoHeader, TRUE, <<>>) ELSE Raised(t.err))
            /\ dynamic' = dynamic
            /\ dynamic_table_size' = IF t.ok THEN t.dynamic_table_size ELSE dynamic_table_size
            /\ max_dynamic_table_size' = IF t.ok THEN t.max ELSE max_dynamic_table_size
            /\ UNCHANGED <<threadVars, frameVars, payloadVars, huff, peer>>

Next ==
    \/ AppendHeader
    \/ DecodeIndexed
    \/ EncodeIndexed
    \/ InsideIndexTable
    \/ Construct

Spec == Init /\ [][Next]_vars

(***************************************************************************)
(* A table of a negotiated size (4096 octets is HTTP/2's default for       *)
(* SETTINGS_HEADER_TABLE_SIZE), built over a long list of one small        *)
(* header, so that the indexes of the dynamic range pass 127 and 255.      *)
(***************************************************************************)
MaxLongDyn == 200

LongTableSizes == { 4096, 8192 }

Repeat(h, n) == [i \in 1..n |-> h]

LongIndexes ==
    { 0, 1, 61, 62, 126, 127, 128, 129, 190, 255, 256, 257 }
    \cup { StaticLen + Len(dynamic), StaticLen + Len(dynamic) + 1 }

InitIndex ==
    /\ \E n \in 0..MaxLongDyn, max \in LongTableSizes : Built(Repeat(<<"a", "b">>, n), max)
    /\ ThreadsIdle
    /\ NoFrames

DecodeIndexedLong == DecodeIndexedIn(LongIndexes)

EncodeIndexedLong == EncodeIndexedIn(LongIndexes)

NextIndex ==
    \/ DecodeIndexedLong
    \/ EncodeIndexedLong

SpecIndex == InitIndex /\ [][NextIndex]_vars

(***************************************************************************)
(* Two threads on one table, which the code guards with no lock: one       *)
(* inside append_header, one reading.  append_header changes the table     *)
(* the reader sees twice: __check_dynamic_table stores the list after      *)
(* eviction in self.__dynamic (or the empty list, returning False), and    *)
(* then, back in append_header, self.__dynamic.append(header) runs.  A     *)
(* thread switch may fall between the two.                                 *)
(***************************************************************************)
\* the writer calls append_header(header) and runs __check_dynamic_table
EnterAppend ==
    /\ pc = "idle"
    /\ \E hdr \in Headers :
          LET chk == check_dynamic_table(dynamic, dynamic_table_size,
                                         max_dynamic_table_size,
                                         32 + Len(hdr[1]) + Len(hdr[2]))
          IN  /\ ~chk.ret \/ Len(chk.dynamic) < MaxDyn \/ Len(chk.dynamic) < Len(dynamic)
              /\ dynamic' = chk.dynamic
              /\ pc' = IF chk.ret THEN "insert" ELSE "idle"
              /\ pending' = IF chk.ret THEN [hdr |-> hdr, pre |-> dynamic] ELSE NoPending
              /\ seen' = NoRead
              /\ UNCHANGED <<dynamic_table_size, max_dynamic_table_size, last, frameVars, payloadVars, huff, peer>>

\* the writer runs self.__dynamic.append(header) and returns
FinishAppend ==
    /\ pc = "insert"
    /\ dynamic' = Append(dynamic, pending.hdr)
    /\ pc' = "idle"
    /\ pending' = NoPending
    /\ seen' = NoRead
    /\ UNCHANGED <<dynamic_table_size, max_dynamic_table_size, last, frameVars, payloadVars, huff, peer>>

\* what the reader got, with the table before and after the append_header
\* call under way (the table as it is when none is)
Observe(op, hdr, idx, ret) ==
    [op |-> op, hdr |-> hdr, idx |-> idx, ret |-> ret,
     during |-> pc = "insert",
     pre |-> IF pc = "insert" THEN pending.pre ELSE dynamic,
     post |-> IF pc = "insert" THEN Append(dynamic, pending.hdr) ELSE dynamic]

ReadOf(op, dyn, hdr, idx) ==
    CASE op = "decode_indexed" -> decode_indexed(dyn, idx)
      [] op = "encode_indexed" -> encode_indexed(dyn, idx)
      [] OTHER -> Returned(NoHeader, inside_index_table(dyn, hdr), <<>>)

\* the reader calls decode_indexed(index) or encode_indexed(index)
ReadIndexed ==
    /\ \E op \in {"decode_indexed", "encode_indexed"}, index \in Indexes :
          seen' = Observe(op, NoHeader, index, ReadOf(op, dynamic, NoHeader, index))
    /\ UNCHANGED <<tableVars, last, pc, pending, frameVars, payloadVars, huff, peer>>

\* the reader calls inside_index_table(header)
ReadInside ==
    /\ \E hdr \in Headers :
          seen' = Observe("inside_index_table", hdr, 0,
                          ReadOf("inside_index_table", dynamic, hdr, 0))
    /\ UNCHANGED <<tableVars, last, pc, pending, frameVars, payloadVars, huff, peer>>

NextThreads ==
    \/ EnterAppend
    \/ FinishAppend
    \/ ReadIndexed
    \/ ReadInside

SpecThreads == Init /\ [][NextThreads]_vars

(***************************************************************************)
(* frame.py: the frame header codec.                                       *)
(*                                                                         *)
(* A Python integer is kept as a record of its bit 31 (top) and the rest   *)
(* (low31), its value being top * 2^31 + low31, so that the 32-bit words   *)
(* struct unpacks stay within the integers TLC has.                        *)
(***************************************************************************)
HTTP_V2_FRAME_HEADER_SIZE == 9

HTTP_V2_DATA_FRAME == 0

HTTP_V2_CONTINUATION_FRAME == 9

HTTP_V2_STREAM_ID_MASK == 2147483647

HTTP_V2_MAX_FRAME_SIZE == 16777215

\* the keys of the dict HTTP_V2_FRAME_FLAG_NAME, in its order: ACK and
\* END_STREAM are one key
HTTP_V2_FRAME_FLAG_NAME == << 0, 1, 4, 8, 32 >>

\* Python's None, where the code takes an optional integer
None == 0 - 1

PyInt(n) == [top |-> 0, low31 |-> n]

Below(x, n) == x.top = 0 /\ x.low31 < n

Above(x, n) == x.top = 1 \/ x.low31 > n

\* struct's ">I" on four octets, and back
unpack_I(o1, o2, o3, o4) ==
    [top |-> o1 \div 128,
     low31 |-> (o1 % 128) * 16777216 + o2 * 65536 + o3 * 256 + o4]

pack_I(x) ==
    << x.top * 128 + x.low31 \div 16777216, (x.low31 \div 65536) % 256,
       (x.low31 \div 256) % 256, x.low31 % 256 >>

\* HTTP2FrameHeader.check_frame_type(_type), need left None
check_frame_type(_type) ==
    IF Below(_type, HTTP_V2_DATA_FRAME) \/ Above(_type, HTTP_V2_CONTINUATION_FRAME)
    THEN "HTTP2FrameError" ELSE ""

\* HTTP2FrameHeader.check_frame_length(_length)
check_frame_length(_length) ==
    IF Below(_length, 0) \/ Above(_length, HTTP_V2_MAX_FRAME_SIZE)
    THEN "HTTP2FrameError" ELSE ""

\* HTTP2FrameHeader.check_frame_sid(_sid)
check_frame_sid(_sid) ==
    IF Below(_sid, 0) \/ Above(_sid, HTTP_V2_STREAM_ID_MASK)
    THEN "HTTP2FrameError" ELSE ""

\* HTTP2FrameHeader.check_frame_flags(_flags): None & flag is a TypeError,
\* and the raise formats the undefined name flags, a NameError
RECURSIVE flags_known(_, _)
flags_known(_flags, n) ==
    IF n = 0 THEN 0
    ELSE LET flag  == HTTP_V2_FRAME_FLAG_NAME[n]
             dummy == flags_known(_flags, n - 1)
         IN  IF BitAnd(_flags, flag) = flag THEN BitOr(dummy, flag) ELSE dummy

check_frame_flags(_flags) ==
    IF _flags = None THEN "TypeError"
    ELSE IF flags_known(_flags, Len(HTTP_V2_FRAME_FLAG_NAME)) # _flags THEN "NameError"
    ELSE ""

\* HTTP2FrameHeader.__init__(_type, _length, _sid, _flags)
frame_header_init(_type, _length, _sid, _flags) ==
    LET err == IF check_frame_type(_type) # "" THEN check_frame_type(_type)
               ELSE IF check_frame_length(_length) # "" THEN check_frame_length(_length)
               ELSE IF check_frame_sid(_sid) # "" THEN check_frame_sid(_sid)
               ELSE check_frame_flags(_flags)
    IN  IF err # ""
        THEN [done |-> TRUE, ok |-> FALSE, err |-> err, hdr |-> NoFrameHeader]
        ELSE [done |-> TRUE, ok |-> TRUE, err |-> "",
              hdr |-> [type |-> _type.low31, length |-> _length.low31,
                       sid |-> _sid.low31, flags |-> _flags]]

\* HTTP2FrameHeader.serialize() of a header the constructor returned:
\* length << 8 | type moves the length's bit 23 to bit 31
frame_header_serialize(h) ==
    LET length_type == [top |-> h.length \div 8388608,
                        low31 |-> BitOr((h.length % 8388608) * 256, h.type)]
    IN  pack_I(length_type) \o << h.flags >> \o pack_I(PyInt(h.sid))

\* HTTP2FrameHeader.parse_frame_header(data), data a bytes object: the
\* three unpacked values go to the constructor as _type, _length and _sid,
\* and _flags keeps its default, None
parse_frame_header(data) ==
    IF Len(data) < HTTP_V2_FRAME_HEADER_SIZE
    THEN [done |-> TRUE, ok |-> FALSE, err |-> "HTTP2FrameError", hdr |-> NoFrameHeader]
    ELSE frame_header_init(unpack_I(data[1], data[2], data[3], data[4]),
                           PyInt(data[5]),
                           unpack_I(data[6], data[7], data[8], data[9]),
                           None)

FrameTypes == { 0 - 1, 0, 9, 10 }

FrameLengths == { 0, 1, 8388608, 16777215, 16777216 }

StreamIds == { 0 - 1, 0, 1, 2147483647 }

FlagOctets == { 0, 1, 45, 2, 64, 255, None }

ReceivedOctets ==
    { << 0, 0, 0 >>,
      << 0, 0, 0, 0, 0, 0, 0, 0, 1 >>,
      << 0, 0, 0, 0, 0, 128, 0, 0, 1 >>,
      << 0, 0, 5, 0, 8, 128, 0, 0, 3 >>,
      << 0, 0, 0, 4, 1, 0, 0, 0, 0 >>,
      << 0, 0, 0, 9, 4, 255, 255, 255, 255 >>,
      << 0, 0, 0, 6, 0, 0, 0, 0, 0, 1, 2, 3, 4, 5, 6, 7, 8 >> }

InitFrame ==
    /\ Built(<<>>, 0)
    /\ ThreadsIdle
    /\ NoFrames

\* the application builds a header; nothing is serialized or parsed yet
NewFrameHeader ==
    /\ \E t \in FrameTypes, l \in FrameLengths, sid \in StreamIds, f \in FlagOctets :
          /\ built' = frame_header_init(PyInt(t), PyInt(l), PyInt(sid), f)
          /\ asked' = [done |-> TRUE, flags |-> f,
                       valid |-> /\ check_frame_type(PyInt(t)) = ""
                                 /\ check_frame_length(PyInt(l)) = ""
                                 /\ check_frame_sid(PyInt(sid)) = ""]
    /\ wire' = <<>>
    /\ parsed' = NotBuilt
    /\ UNCHANGED <<tableVars, last, threadVars, payloadVars, huff, peer>>

\* the application serializes the header it built
SerializeHeader ==
    /\ built.ok
    /\ wire' = frame_header_serialize(built.hdr)
    /\ parsed' = NotBuilt
    /\ UNCHANGED <<tableVars, last, threadVars, built, asked, payloadVars, huff, peer>>

\* octets arrive from the peer
Receive ==
    /\ \E data \in ReceivedOctets : wire' = data
    /\ parsed' = NotBuilt
    /\ UNCHANGED <<tableVars, last, threadVars, built, asked, payloadVars, huff, peer>>

\* parse_frame_header on the octets at hand
ParseHeader ==
    /\ wire # <<>>
    /\ parsed' = parse_frame_header(wire)
    /\ UNCHANGED <<tableVars, last, threadVars, built, wire, asked, payloadVars, huff, peer>>

NextFrame ==
    \/ NewFrameHeader
    \/ SerializeHeader
    \/ Receive
    \/ ParseHeader

SpecFrame == InitFrame /\ [][NextFrame]_vars

(***************************************************************************)
(* The frame payload codecs of http2-adapter/frame.py: the constructors,   *)
(* serialize() and parse_frame() of the DATA, PRIORITY, RST_STREAM,        *)
(* SETTINGS and PING frames.  A frame object is a record: attrs names the  *)
(* instance attributes its constructor stored (an assignment to            *)
(* self__excl or self__header binds a local name and stores nothing).      *)
(* An integer that unpack() returned arrives wrapped in a tuple.           *)
(***************************************************************************)
HTTP_V2_NO_ERROR == 0

HTTP_V2_HTTP_1_1_REQUIRED == 13

HTTP_V2_RST_STREAM_SIZE == 4

HTTP_V2_PING_SIZE == 8

HTTP_V2_SETTINGS_PARAM_SIZE == 6

HTTP_V2_PRIORITY_FRAME == 2

HTTP_V2_RST_STREAM_FRAME == 3

HTTP_V2_SETTINGS_FRAME == 4

HTTP_V2_PING_FRAME == 6

HTTP_V2_ACK_FLAG == 1

HTTP_V2_PADDED_FLAG == 8

\* a plain integer argument, and the 1-tuple unpack() returns for it
IntValue(x) == [tuple |-> FALSE, top |-> x.top, low31 |-> x.low31, digits |-> <<>>]

TupleOf(v) == [v EXCEPT !.tuple = TRUE]

\* a 64-bit integer, kept as its eight base-256 digits: struct's ">Q"
unpack_Q(payload) == [tuple |-> FALSE, top |-> 0, low31 |-> 0, digits |-> payload]

pack_Q(v) == v.digits

\* the call raised e
FrameRaised(kind, e) == [NoFrame EXCEPT !.kind = kind, !.err = e]

\* HTTP2FrameHeader.check_frame_type(_type, need) on a header's type
check_frame_type_need(_type, need) ==
    IF check_frame_type(PyInt(_type)) # "" THEN check_frame_type(PyInt(_type))
    ELSE IF _type # need THEN "HTTP2FrameError"
    ELSE ""

\* HTTP2FrameHeader.has_flag(flag): it reads self.__flag, and the
\* constructor stored self.__flags, so the read is an AttributeError
has_flag(h, flag) == [ok |-> FALSE, err |-> "AttributeError", val |-> FALSE]

\* HTTP2DataFrame.__init__(_header, _data, _pad)
data_init(_header, _data, _pad) ==
    LET e        == check_frame_type_need(_header.type, HTTP_V2_DATA_FRAME)
        pad_flag == has_flag(_header, HTTP_V2_PADDED_FLAG)
    IN  IF e # "" THEN FrameRaised("DATA", e)
        ELSE IF ~pad_flag.ok THEN FrameRaised("DATA", pad_flag.err)
        ELSE IF pad_flag.val /\ _pad = NoPad THEN FrameRaised("DATA", "HTTP2FrameError")
        ELSE IF ~pad_flag.val /\ _pad # NoPad THEN FrameRaised("DATA", "HTTP2FrameError")
        ELSE [NoFrame EXCEPT !.ok = TRUE, !.kind = "DATA", !.hdr = _header,
                             !.attrs = {"header", "data", "pad"},
                             !.data = _data, !.pad = _pad]

\* HTTP2DataFrame.parse_frame(header, payload): the message of the first
\* raise calls HTTP2FrameHeader.get_frame_name, which the class lacks
data_parse_frame(header, payload) ==
    IF header.type # HTTP_V2_DATA_FRAME THEN FrameRaised("DATA", "AttributeError")
    ELSE IF header.length # Len(payload) THEN FrameRaised("DATA", "HTTP2FrameError")
    ELSE LET padded == has_flag(header, HTTP_V2_PADDED_FLAG)
         IN  IF ~padded.ok THEN FrameRaised("DATA", padded.err)
             ELSE IF padded.val /\ header.length = 0
             THEN FrameRaised("DATA", "HTTP2FrameError")
             ELSE LET pad_length  == IF padded.val THEN payload[1] ELSE 0
                      rest        == IF padded.val THEN Tail(payload) ELSE payload
                      data_length == header.length - pad_length
                  IN  IF pad_length >= header.length
                      THEN FrameRaised("DATA", "HTTP2FrameError")
                      ELSE IF pad_length = 0 THEN data_init(header, rest, NoPad)
                      ELSE data_init(header, SubSeq(rest, 1, data_length),
                                     SubSeq(rest, data_length + 1, Len(rest)))

\* HTTP2PriorityFrame.__init__(_header, depend, weight, excl); excl goes to
\* a local name.  priority_init_255 is the constructor with a weight limit
\* of 255, the octet's range.
priority_init_255(_header, depend, weight, excl) ==
    LET e == check_frame_type_need(_header.type, HTTP_V2_PRIORITY_FRAME)
    IN  IF e # "" THEN FrameRaised("PRIORITY", e)
        ELSE IF check_frame_sid(depend) # ""
        THEN FrameRaised("PRIORITY", check_frame_sid(depend))
        ELSE IF _header.sid = 0 THEN FrameRaised("PRIORITY", "HTTP2FrameError")
        ELSE IF depend.top = 0 /\ depend.low31 = _header.sid
        THEN FrameRaised("PRIORITY", "HTTP2FrameError")
        ELSE IF weight < 1 \/ weight > 255
        THEN FrameRaised("PRIORITY", "HTTP2FrameError")
        ELSE [NoFrame EXCEPT !.ok = TRUE, !.kind = "PRIORITY", !.hdr = _header,
                             !.attrs = {"header", "depend", "weight"},
                             !.depend = depend, !.weight = weight]

priority_init(_header, depend, weight, excl) ==
    LET e == check_frame_type_need(_header.type, HTTP_V2_PRIORITY_FRAME)
    IN  IF e # "" THEN FrameRaised("PRIORITY", e)
        ELSE IF check_frame_sid(depend) # ""
        THEN FrameRaised("PRIORITY", check_frame_sid(depend))
        ELSE IF _header.sid = 0 THEN FrameRaised("PRIORITY", "HTTP2FrameError")
        ELSE IF depend.top = 0 /\ depend.low31 = _header.sid
        THEN FrameRaised("PRIORITY", "HTTP2FrameError")
        ELSE IF weight < 1 \/ weight > 256
        THEN FrameRaised("PRIORITY", "HTTP2FrameError")
        ELSE [NoFrame EXCEPT !.ok = TRUE, !.kind = "PRIORITY", !.hdr = _header,
                             !.attrs = {"header", "depend", "weight"},
                             !.depend = depend, !.weight = weight]

\* HTTP2PriorityFrame.serialize(): self.__excl was never stored; with it,
\* depend | 1 << 32 is out of ">I"'s range and 256 out of "B"'s
priority_serialize(f) ==
    IF "excl" \notin f.attrs
    THEN [done |-> TRUE, ok |-> FALSE, err |-> "AttributeError", out |-> <<>>]
    ELSE IF f.excl \/ f.weight > 255
    THEN [done |-> TRUE, ok |-> FALSE, err |-> "struct.error", out |-> <<>>]
    ELSE [done |-> TRUE, ok |-> TRUE, err |-> "",
          out |-> frame_header_serialize(f.hdr) \o pack_I(f.depend) \o << f.weight >>]

\* HTTP2PriorityFrame.parse_frame(header, payload): ">IB" takes five
\* octets, and bit 32 of a 32-bit value is never set
priority_parse_frame(header, payload) ==
    IF header.type # HTTP_V2_PRIORITY_FRAME THEN FrameRaised("PRIORITY", "HTTP2FrameError")
    ELSE IF header.length # Len(payload) THEN FrameRaised("PRIORITY", "HTTP2FrameError")
    ELSE IF Len(payload) # 5 THEN FrameRaised("PRIORITY", "struct.error")
    ELSE LET depend == unpack_I(payload[1], payload[2], payload[3], payload[4])
             weight == payload[5]
             excl   == FALSE
         IN  priority_init(header, depend, weight, excl)

\* HTTP2RSTStreamFrame.__init__(_header, _code): the type it asks for is
\* PRIORITY's; a tuple does not compare with an integer
rst_stream_init(_header, _code) ==
    LET e == check_frame_type_need(_header.type, HTTP_V2_PRIORITY_FRAME)
    IN  IF e # "" THEN FrameRaised("RST_STREAM", e)
        ELSE IF _header.sid = 0 THEN FrameRaised("RST_STREAM", "HTTP2FrameError")
        ELSE IF _code.tuple THEN FrameRaised("RST_STREAM", "TypeError")
        ELSE IF Below(_code, HTTP_V2_NO_ERROR) \/ Above(_code, HTTP_V2_HTTP_1_1_REQUIRED)
        THEN FrameRaised("RST_STREAM", "HTTP2FrameError")
        ELSE [NoFrame EXCEPT !.ok = TRUE, !.kind = "RST_STREAM", !.hdr = _header,
                             !.attrs = {"code"}, !.code = _code]

\* HTTP2RSTStreamFrame.parse_frame(header, payload)
rst_stream_parse_frame(header, payload) ==
    LET e == check_frame_type_need(header.type, HTTP_V2_RST_STREAM_FRAME)
    IN  IF e # "" THEN FrameRaised("RST_STREAM", e)
        ELSE IF header.length # HTTP_V2_RST_STREAM_SIZE
        THEN FrameRaised("RST_STREAM", "HTTP2FrameError")
        ELSE IF header.length # Len(payload)
        THEN FrameRaised("RST_STREAM", "HTTP2FrameError")
        ELSE LET code == TupleOf(IntValue(unpack_I(payload[1], payload[2],
                                                   payload[3], payload[4])))
             IN  rst_stream_init(header, code)

\* HTTP2SettingsFrame.__init__(_header, _settings): the loop's first test
\* reads the undefined name SETTINGS_MAX_HEADER_LIST_SIZE.
\* settings_init_unchecked is the constructor without its if/elif chain of
\* tests on the header.
settings_init_unchecked(_header, _settings) ==
    LET e == check_frame_type_need(_header.type, HTTP_V2_SETTINGS_FRAME)
    IN  IF e # "" THEN FrameRaised("SETTINGS", e)
        ELSE IF _settings # <<>> THEN FrameRaised("SETTINGS", "NameError")
        ELSE [NoFrame EXCEPT !.ok = TRUE, !.kind = "SETTINGS", !.hdr = _header,
                             !.attrs = {"settings"}, !.settings = _settings]

settings_init(_header, _settings) ==
    LET e   == check_frame_type_need(_header.type, HTTP_V2_SETTINGS_FRAME)
        ack == has_flag(_header, HTTP_V2_ACK_FLAG)
    IN  IF e # "" THEN FrameRaised("SETTINGS", e)
        ELSE IF _header.sid # 0 THEN FrameRaised("SETTINGS", "HTTP2FrameError")
        ELSE IF ~ack.ok THEN FrameRaised("SETTINGS", ack.err)
        ELSE IF ack.val /\ _header.length > 0
        THEN FrameRaised("SETTINGS", "HTTP2FrameError")
        ELSE IF _header.length # Len(_settings) * HTTP_V2_SETTINGS_PARAM_SIZE
        THEN FrameRaised("SETTINGS", "HTTP2FrameError")
        ELSE IF _settings # <<>> THEN FrameRaised("SETTINGS", "NameError")
        ELSE [NoFrame EXCEPT !.ok = TRUE, !.kind = "SETTINGS", !.hdr = _header,
                             !.attrs = {"settings"}, !.settings = _settings]

\* struct's ">H" on a setting's key
pack_H(key) == << key \div 256, key % 256 >>

\* HTTP2SettingsFrame.serialize(): it reads self.__header, never stored
RECURSIVE settings_items(_)
settings_items(_settings) ==
    IF _settings = <<>> THEN <<>>
    ELSE pack_H(_settings[1][1]) \o pack_I(_settings[1][2])
         \o settings_items(Tail(_settings))

settings_serialize(f) ==
    IF "header" \notin f.attrs
    THEN [done |-> TRUE, ok |-> FALSE, err |-> "AttributeError", out |-> <<>>]
    ELSE [done |-> TRUE, ok |-> TRUE, err |-> "",
          out |-> frame_header_serialize(f.hdr) \o settings_items(f.settings)]

\* the loop of HTTP2SettingsFrame.parse_frame: it steps by the frame type
\* constant, cuts HTTP_V2_SETTINGS_PARAM_SIZE octets, and ">BI" takes five
RECURSIVE settings_pieces(_, _, _)
settings_pieces(payload, i, length) ==
    IF i >= length THEN [ok |-> TRUE, settings |-> <<>>]
    ELSE LET last_octet == IF i + HTTP_V2_SETTINGS_PARAM_SIZE < Len(payload)
                           THEN i + HTTP_V2_SETTINGS_PARAM_SIZE ELSE Len(payload)
             piece      == SubSeq(payload, i + 1, last_octet)
         IN  IF Len(piece) # 5 THEN [ok |-> FALSE, settings |-> <<>>]
             ELSE LET param_id    == piece[1]
                      param_value == unpack_I(piece[2], piece[3], piece[4], piece[5])
                      more        == settings_pieces(payload, i + HTTP_V2_SETTINGS_FRAME,
                                                     length)
                  IN  IF ~more.ok THEN more
                      ELSE [ok |-> TRUE,
                            settings |-> << <<param_id, param_value>> >> \o more.settings]

\* HTTP2SettingsFrame.parse_frame(header, payload): the type it asks for
\* is RST_STREAM's, and the length is taken modulo the frame type constant
settings_parse_frame(header, payload) ==
    LET e == check_frame_type_need(header.type, HTTP_V2_RST_STREAM_FRAME)
    IN  IF e # "" THEN FrameRaised("SETTINGS", e)
        ELSE IF header.length % HTTP_V2_SETTINGS_FRAME # 0
        THEN FrameRaised("SETTINGS", "HTTP2FrameError")
        ELSE IF header.length # Len(payload)
        THEN FrameRaised("SETTINGS", "HTTP2FrameError")
        ELSE LET pieces == settings_pieces(payload, 0, header.length)
             IN  IF ~pieces.ok THEN FrameRaised("SETTINGS", "struct.error")
                 ELSE settings_init(header, pieces.settings)

\* HTTP2PingFrame.__init__(_header, _opaque)
ping_init(_header, _opaque) ==
    LET e == check_frame_type_need(_header.type, HTTP_V2_PING_FRAME)
    IN  IF e # "" THEN FrameRaised("PING", e)
        ELSE IF _header.sid # 0 THEN FrameRaised("PING", "HTTP2FrameError")
        ELSE [NoFrame EXCEPT !.ok = TRUE, !.kind = "PING", !.hdr = _header,
                             !.attrs = {"header", "opaque"}, !.opaque = _opaque]

\* HTTP2PingFrame.serialize(): ">Q" takes an integer, not a tuple
ping_serialize(f) ==
    IF f.opaque.tuple
    THEN [done |-> TRUE, ok |-> FALSE, err |-> "struct.error", out |-> <<>>]
    ELSE [done |-> TRUE, ok |-> TRUE, err |-> "",
          out |-> frame_header_serialize(f.hdr) \o pack_Q(f.opaque)]

\* HTTP2PingFrame.parse_frame(header, payload)
ping_parse_frame(header, payload) ==
    LET e == check_frame_type_need(header.type, HTTP_V2_PING_FRAME)
    IN  IF e # "" THEN FrameRaised("PING", e)
        ELSE IF header.length # HTTP_V2_PING_SIZE THEN FrameRaised("PING", "HTTP2FrameError")
        ELSE IF header.length # Len(payload) THEN FrameRaised("PING", "HTTP2FrameError")
        ELSE LET opaque == TupleOf(unpack_Q(payload))
             IN  ping_init(header, opaque)

(***************************************************************************)
(* The headers, payloads and arguments the payload codecs are called with. *)
(***************************************************************************)
PayloadTypes ==
    { HTTP_V2_DATA_FRAME, HTTP_V2_PRIORITY_FRAME, HTTP_V2_RST_STREAM_FRAME,
      HTTP_V2_SETTINGS_FRAME, HTTP_V2_PING_FRAME }

PayloadLengths == { 0, 4, 5, 6, 8, 12 }

PayloadStreamIds == { 0, 1 }

PayloadFlags == { 0, HTTP_V2_ACK_FLAG, HTTP_V2_PADDED_FLAG }

\* the headers HTTP2FrameHeader(...) returns for them
PayloadHeaders ==
    { frame_header_init(PyInt(t), PyInt(l), PyInt(sid), f).hdr :
        t \in PayloadTypes, l \in PayloadLengths,
        sid \in PayloadStreamIds, f \in PayloadFlags }

Payloads ==
    { <<>>,
      << 0, 0, 0, 8 >>,
      << 0, 0, 0, 14 >>,
      << 4, 1, 2, 3, 4 >>,
      << 0, 1, 2, 3, 4 >>,
      << 5, 1, 2, 3, 4 >>,
      << 0, 0, 0, 1, 15 >>,
      << 128, 0, 0, 3, 255 >>,
      << 0, 3, 0, 0, 0, 100 >>,
      << 1, 2, 3, 4, 5, 6, 7, 8 >>,
      << 0, 1, 0, 0, 16, 0, 0, 4, 0, 0, 255, 255 >> }

Dependencies == { PyInt(0 - 1), PyInt(1), PyInt(HTTP_V2_STREAM_ID_MASK) }

Weights == { 0, 1, 256, 257 }

ErrorCodes == { PyInt(0 - 1), PyInt(HTTP_V2_NO_ERROR), PyInt(8),
                PyInt(HTTP_V2_HTTP_1_1_REQUIRED), PyInt(14) }

SettingsLists ==
    { <<>>,
      << <<3, PyInt(100)>> >>,
      << <<1, PyInt(4096)>>, <<4, PyInt(65535)>> >> }

Opaques == { unpack_Q(<< 0, 0, 0, 0, 0, 0, 0, 0 >>),
             unpack_Q(<< 1, 2, 3, 4, 5, 6, 7, 8 >>) }

DataBodies == { <<>>, << 1, 2 >> }

Paddings == { NoPad, << 0, 0 >> }

\* the codecs are handed a header HTTP2FrameHeader(...) returned earlier
InitPayload ==
    /\ Built(<<>>, 0)
    /\ ThreadsIdle
    /\ built = NotBuilt /\ wire = <<>> /\ parsed = NotBuilt /\ asked = NotAsked
    /\ \E h \in PayloadHeaders : call = [NoFrameCall EXCEPT !.hdr = h]
    /\ frame = NoFrame
    /\ serialized = NoOctets
    /\ huff = NoHuffman

\* HTTP2DataFrame(header, data, pad)
NewData ==
    \E d \in DataBodies, p \in Paddings :
        /\ call' = [NoFrameCall EXCEPT !.hdr = call.hdr, !.op = "HTTP2DataFrame",
                                       !.data = d, !.pad = p]
        /\ frame' = data_init(call.hdr, d, p)
        /\ serialized' = NoOctets
        /\ UNCHANGED <<tableVars, last, threadVars, frameVars, huff, peer>>

\* HTTP2DataFrame.parse_frame(header, payload)
ParseData ==
    \E p \in Payloads :
        /\ call' = [NoFrameCall EXCEPT !.hdr = call.hdr, !.op = "HTTP2DataFrame.parse_frame",
                                       !.payload = p]
        /\ frame' = data_parse_frame(call.hdr, p)
        /\ serialized' = NoOctets
        /\ UNCHANGED <<tableVars, last, threadVars, frameVars, huff, peer>>

\* HTTP2PriorityFrame(header, depend, weight, excl)
NewPriority ==
    \E d \in Dependencies, w \in Weights, x \in BOOLEAN :
        /\ call' = [NoFrameCall EXCEPT !.hdr = call.hdr, !.op = "HTTP2PriorityFrame",
                                       !.depend = d, !.weight = w, !.excl = x]
        /\ frame' = priority_init(call.hdr, d, w, x)
        /\ serialized' = NoOctets
        /\ UNCHANGED <<tableVars, last, threadVars, frameVars, huff, peer>>

\* HTTP2PriorityFrame.parse_frame(header, payload)
ParsePriority ==
    \E p \in Payloads :
        /\ call' = [NoFrameCall EXCEPT !.hdr = call.hdr, !.op = "HTTP2PriorityFrame.parse_frame",
                                       !.payload = p]
        /\ frame' = priority_parse_frame(call.hdr, p)
        /\ serialized' = NoOctets
        /\ UNCHANGED <<tableVars, last, threadVars, frameVars, huff, peer>>

\* frame.serialize() on the PRIORITY frame at hand
SerializePriority ==
    /\ frame.ok
    /\ frame.kind = "PRIORITY"
    /\ serialized' = priority_serialize(frame)
    /\ UNCHANGED <<tableVars, last, threadVars, frameVars, huff, peer, call, frame>>

\* HTTP2RSTStreamFrame(header, code)
NewRSTStream ==
    \E c \in ErrorCodes :
        /\ call' = [NoFrameCall EXCEPT !.hdr = call.hdr, !.op = "HTTP2RSTStreamFrame",
                                       !.code = IntValue(c)]
        /\ frame' = rst_stream_init(call.hdr, IntValue(c))
        /\ serialized' = NoOctets
        /\ UNCHANGED <<tableVars, last, threadVars, frameVars, huff, peer>>

\* HTTP2RSTStreamFrame.parse_frame(header, payload)
ParseRSTStream ==
    \E p \in Payloads :
        /\ call' = [NoFrameCall EXCEPT !.hdr = call.hdr, !.op = "HTTP2RSTStreamFrame.parse_frame",
                                       !.payload = p]
        /\ frame' = rst_stream_parse_frame(call.hdr, p)
        /\ serialized' = NoOctets
        /\ UNCHANGED <<tableVars, last, threadVars, frameVars, huff, peer>>

\* HTTP2SettingsFrame(header, settings)
NewSettings ==
    \E l \in SettingsLists :
        /\ call' = [NoFrameCall EXCEPT !.hdr = call.hdr, !.op = "HTTP2SettingsFrame",
                                       !.settings = l]
        /\ frame' = settings_init(call.hdr, l)
        /\ serialized' = NoOctets
        /\ UNCHANGED <<tableVars, last, threadVars, frameVars, huff, peer>>

\* HTTP2SettingsFrame.parse_frame(header, payload)
ParseSettings ==
    \E p \in Payloads :
        /\ call' = [NoFrameCall EXCEPT !.hdr = call.hdr, !.op = "HTTP2SettingsFrame.parse_frame",
                                       !.payload = p]
        /\ frame' = settings_parse_frame(call.hdr, p)
        /\ serialized' = NoOctets
        /\ UNCHANGED <<tableVars, last, threadVars, frameVars, huff, peer>>

\* HTTP2PingFrame(header, opaque)
NewPing ==
    \E o \in Opaques :
        /\ call' = [NoFrameCall EXCEPT !.hdr = call.hdr, !.op = "HTTP2PingFrame",
                                       !.opaque = o]
        /\ frame' = ping_init(call.hdr, o)
        /\ serialized' = NoOctets
        /\ UNCHANGED <<tableVars, last, threadVars, frameVars, huff, peer>>

\* HTTP2PingFrame.parse_frame(header, payload)
ParsePing ==
    \E p \in Payloads :
        /\ call' = [NoFrameCall EXCEPT !.hdr = call.hdr, !.op = "HTTP2PingFrame.parse_frame",
                                       !.payload = p]
        /\ frame' = ping_parse_frame(call.hdr, p)
        /\ serialized' = NoOctets
        /\ UNCHANGED <<tableVars, last, threadVars, frameVars, huff, peer>>

\* frame.serialize() on the PING frame at hand
SerializePing ==
    /\ frame.ok
    /\ frame.kind = "PING"
    /\ serialized' = ping_serialize(frame)
    /\ UNCHANGED <<tableVars, last, threadVars, frameVars, huff, peer, call, frame>>

NextPayload ==
    \/ NewData
    \/ ParseData
    \/ NewPriority
    \/ ParsePriority
    \/ SerializePriority
    \/ NewRSTStream
    \/ ParseRSTStream
    \/ NewSettings
    \/ ParseSettings
    \/ NewPing
    \/ ParsePing
    \/ SerializePing

SpecPayload == InitPayload /\ [][NextPayload]_vars

(***************************************************************************)
(* The Huffman coder (HTTP2Huffman), called as tests/test_huffman.py calls *)
(* it.  The repository's sources hold its test and not its implementation; *)
(* the coder follows its specification: encode maps each character to its  *)
(* code in the canonical code table of HPACK, optionally after lower-      *)
(* casing, joins the bits and fills the last octet with the leading bits   *)
(* of the EOS code; decode walks the bits, gives a character for each      *)
(* code, and takes fewer than eight remaining bits for padding when they   *)
(* are a prefix of EOS.  A text is a sequence of character codes.          *)
(***************************************************************************)
\* longest text encoded
MaxText == 3

\* the printable ASCII characters
HuffmanSymbols == 32..126

\* <<code, length in bits>> of the characters 32..126, in that order
HuffmanTable ==
    << <<20, 6>>, <<1016, 10>>, <<1017, 10>>, <<4090, 12>>, <<8185, 13>>,
       <<21, 6>>, <<248, 8>>, <<2042, 11>>, <<1018, 10>>, <<1019, 10>>,
       <<249, 8>>, <<2043, 11>>, <<250, 8>>, <<22, 6>>, <<23, 6>>,
       <<24, 6>>, <<0, 5>>, <<1, 5>>, <<2, 5>>, <<25, 6>>,
       <<26, 6>>, <<27, 6>>, <<28, 6>>, <<29, 6>>, <<30, 6>>,
       <<31, 6>>, <<92, 7>>, <<251, 8>>, <<32764, 15>>, <<32, 6>>,
       <<4091, 12>>, <<1020, 10>>, <<8186, 13>>, <<33, 6>>, <<93, 7>>,
       <<94, 7>>, <<95, 7>>, <<96, 7>>, <<97, 7>>, <<98, 7>>,
       <<99, 7>>, <<100, 7>>, <<101, 7>>, <<102, 7>>, <<103, 7>>,
       <<104, 7>>, <<105, 7>>, <<106, 7>>, <<107, 7>>, <<108, 7>>,
       <<109, 7>>, <<110, 7>>, <<111, 7>>, <<112, 7>>, <<113, 7>>,
       <<114, 7>>, <<252, 8>>, <<115, 7>>, <<253, 8>>, <<8187, 13>>,
       <<524272, 19>>, <<8188, 13>>, <<16380, 14>>, <<34, 6>>, <<32765, 15>>,
       <<3, 5>>, <<35, 6>>, <<4, 5>>, <<36, 6>>, <<5, 5>>,
       <<37, 6>>, <<38, 6>>, <<39, 6>>, <<6, 5>>, <<116, 7>>,
       <<117, 7>>, <<40, 6>>, <<41, 6>>, <<42, 6>>, <<7, 5>>,
       <<43, 6>>, <<118, 7>>, <<44, 6>>, <<8, 5>>, <<9, 5>>,
       <<45, 6>>, <<119, 7>>, <<120, 7>>, <<121, 7>>, <<122, 7>>,
       <<123, 7>>, <<32766, 15>>, <<2044, 11>>, <<16381, 14>>, <<8189, 13>> >>

\* the end-of-string code: thirty bits, all set
HuffmanEOS == << 1073741823, 30 >>

huffman_code(c) == HuffmanTable[c - 31]

\* the bits of a code, most significant first
CodeBits(code) == [i \in 1..code[2] |-> (code[1] \div (2 ^ (code[2] - i))) % 2]

\* str.lower() on an ASCII character
PyLower(c) == IF c \in 65..90 THEN c + 32 ELSE c

Lowered(text) == [i \in 1..Len(text) |-> PyLower(text[i])]

RECURSIVE text_bits(_)
text_bits(text) ==
    IF text = <<>> THEN <<>>
    ELSE CodeBits(huffman_code(text[1])) \o text_bits(Tail(text))

\* fill the last octet with the leading bits of EOS
pad_bits(bits) ==
    LET fill == (8 - (Len(bits) % 8)) % 8
    IN  bits \o [i \in 1..fill |-> CodeBits(HuffmanEOS)[i]]

pack_bits(bits) ==
    [k \in 1..(Len(bits) \div 8) |->
        bits[8 * k - 7] * 128 + bits[8 * k - 6] * 64 + bits[8 * k - 5] * 32
        + bits[8 * k - 4] * 16 + bits[8 * k - 3] * 8 + bits[8 * k - 2] * 4
        + bits[8 * k - 1] * 2 + bits[8 * k]]

unpack_bits(data) ==
    [i \in 1..(8 * Len(data)) |->
        (data[(i - 1) \div 8 + 1] \div (2 ^ (7 - ((i - 1) % 8)))) % 2]

\* HTTP2Huffman.encode(text, lower).  huffman_encode_zeros fills the last
\* octet with zero bits.
huffman_encode_zeros(text, lower) ==
    LET bits == text_bits(IF lower THEN Lowered(text) ELSE text)
        fill == (8 - (Len(bits) % 8)) % 8
    IN  pack_bits(bits \o [i \in 1..fill |-> 0])

huffman_encode(text, lower) ==
    pack_bits(pad_bits(text_bits(IF lower THEN Lowered(text) ELSE text)))

\* the code of c stands in bits at pos
code_at(bits, pos, c) ==
    LET code == CodeBits(huffman_code(c))
    IN  /\ pos + Len(code) - 1 <= Len(bits)
        /\ \A i \in 1..Len(code) : bits[pos + i - 1] = code[i]

\* HTTP2Huffman.decode(data)
RECURSIVE decode_from(_, _)
decode_from(bits, pos) ==
    LET hits == { c \in HuffmanSymbols : code_at(bits, pos, c) }
        left == Len(bits) - pos + 1
    IN  IF Cardinality(hits) > 1
        THEN [ok |-> FALSE, err |-> "HTTP2HpackDecodeError", out |-> <<>>]
        ELSE IF Cardinality(hits) = 1
        THEN LET c    == CHOOSE c \in hits : TRUE
                 more == decode_from(bits, pos + huffman_code(c)[2])
             IN  IF more.ok THEN [more EXCEPT !.out = << c >> \o more.out] ELSE more
        ELSE IF left < 8 /\ \A i \in pos..Len(bits) : bits[i] = CodeBits(HuffmanEOS)[i - pos + 1]
        THEN [ok |-> TRUE, err |-> "", out |-> <<>>]
        ELSE [ok |-> FALSE, err |-> "HTTP2HpackDecodeError", out |-> <<>>]

huffman_decode(data) == decode_from(unpack_bits(data), 1)

\* the characters the texts are made of: "a", "H", "Z", "!", "\", "0", with
\* codes of 5, 7, 8, 10, 19 and 5 bits
TextSymbols == { 97, 72, 90, 33, 92, 48 }

\* a text is at hand, nothing encoded yet
InitHuffman ==
    /\ Built(<<>>, 0)
    /\ ThreadsIdle
    /\ built = NotBuilt /\ wire = <<>> /\ parsed = NotBuilt /\ asked = NotAsked
    /\ call = NoFrameCall /\ frame = NoFrame /\ serialized = NoOctets
    /\ \E text \in SeqsUpTo(TextSymbols, MaxText), lower \in BOOLEAN :
          huff = [NoHuffman EXCEPT !.text = text, !.lower = lower]

\* h.encode(text, lower)
HuffmanEncode ==
    /\ ~huff.encoded
    /\ huff' = [huff EXCEPT !.encoded = TRUE,
                            !.code = huffman_encode(huff.text, huff.lower)]
    /\ UNCHANGED <<tableVars, last, threadVars, frameVars, payloadVars, peer>>

\* h.decode(...) on the encoder's output
HuffmanDecode ==
    /\ huff.encoded
    /\ ~huff.decoded
    /\ LET r == huffman_decode(huff.code)
       IN  huff' = [huff EXCEPT !.decoded = TRUE, !.ok = r.ok, !.err = r.err,
                               !.out = r.out]
    /\ UNCHANGED <<tableVars, last, threadVars, frameVars, payloadVars, peer>>

NextHuffman ==
    \/ HuffmanEncode
    \/ HuffmanDecode

SpecHuffman == InitHuffman /\ [][NextHuffman]_vars

(***************************************************************************)
(* HTTP2HeadersFrame.__init__ of http2-adapter/frame.py.  A header name is *)
(* a sequence of character codes, a value a string.  The headers argument  *)
(* is a dict, kept as its items in insertion order, or a list of pairs.    *)
(* header_block, a dict, is kept the same way.                             *)
(***************************************************************************)
\* most items in a headers argument
MaxHeaders == 3

\* ":authority", ":method", ":path"
PSEUDO_AUTHORITY == << 58, 97, 117, 116, 104, 111, 114, 105, 116, 121 >>

PSEUDO_METHOD == << 58, 109, 101, 116, 104, 111, 100 >>

PSEUDO_PATH == << 58, 112, 97, 116, 104 >>

\* d[key] = value on a dict: a key it has keeps its place
dict_set(d, key, value) ==
    IF \E i \in 1..Len(d) : d[i][1] = key
    THEN [i \in 1..Len(d) |-> IF d[i][1] = key THEN << key, value >> ELSE d[i]]
    ELSE Append(d, << key, value >>)

\* dict((key.lower(), headers[key]) for key in headers), the first n keys
RECURSIVE dict_lowered(_, _)
dict_lowered(items, n) ==
    IF n = 0 THEN <<>>
    ELSE dict_set(dict_lowered(items, n - 1), Lowered(items[n][1]), items[n][2])

\* HTTP2HeadersFrame.__init__(authority, path, method, headers, sid, flags):
\* iterating a list of pairs gives tuples, which have no lower()
headers_frame_init(authority, path, method, headers) ==
    IF ~headers.dict /\ headers.items # <<>>
    THEN FrameRaised("HEADERS", "AttributeError")
    ELSE LET block == dict_lowered(headers.items, Len(headers.items))
         IN  [NoFrame EXCEPT
                 !.ok = TRUE, !.kind = "HEADERS", !.attrs = {"header", "header_block"},
                 !.header_block =
                     dict_set(dict_set(dict_set(block, PSEUDO_AUTHORITY, authority),
                                       PSEUDO_METHOD, method),
                              PSEUDO_PATH, path)]

\* header names "A", "a", "b", ":path" and values
HeaderNames == { << 65 >>, << 97 >>, << 98 >>, PSEUDO_PATH }

HeaderValues == { "1", "2" }

\* a dict has each key once; a list of pairs may repeat a name
HeaderCollections ==
    LET lists == SeqsUpTo(HeaderNames \X HeaderValues, MaxHeaders)
    IN  { [dict |-> TRUE, items |-> l] :
            l \in { m \in lists : \A i, j \in 1..Len(m) : m[i][1] = m[j][1] => i = j } }
        \cup { [dict |-> FALSE, items |-> l] : l \in lists }

Authorities == { "example.org", "h2.example" }

\* the arguments of the call are drawn here
InitHeaders ==
    /\ Built(<<>>, 0)
    /\ ThreadsIdle
    /\ built = NotBuilt /\ wire = <<>> /\ parsed = NotBuilt /\ asked = NotAsked
    /\ \E a \in Authorities, h \in HeaderCollections :
          call = [NoFrameCall EXCEPT !.headers = h, !.authority = a,
                                     !.path = "/", !.method = "GET"]
    /\ frame = NoFrame
    /\ serialized = NoOctets
    /\ huff = NoHuffman

\* HTTP2HeadersFrame(authority, path, method, headers, sid)
NewHeaders ==
    /\ call.op = ""
    /\ call' = [call EXCEPT !.op = "HTTP2HeadersFrame"]
    /\ frame' = headers_frame_init(call.authority, call.path, call.method, call.headers)
    /\ serialized' = NoOctets
    /\ UNCHANGED <<tableVars, last, threadVars, frameVars, huff, peer>>

NextHeaders == NewHeaders

SpecHeaders == InitHeaders /\ [][NextHeaders]_vars

(***************************************************************************)
(* Two tables built from one list: supplied = [...]; one = HTTP2Hpack(     *)
(* supplied, max); two = HTTP2Hpack(supplied, max).  The variables of the  *)
(* table are those of one; peer holds two, the caller's list and, for each *)
(* table, whether its __dynamic is still the caller's list object.         *)
(***************************************************************************)
\* self.__dynamic = dynamic or []: an empty list is false, the table then
\* gets a list of its own
keeps_list(dyn) == dyn # <<>>

\* whether __check_dynamic_table(size) assigns a new list to self.__dynamic:
\* every branch but the first does
rebinds(cur, max, size) == ~(cur + size < max)

InitAlias ==
    /\ \E dyn \in SeqsUpTo(Headers, MaxInitLen), max \in MaxTableSizes :
          LET t == hpack_init(dyn, max)
          IN  /\ t.ok
              /\ dynamic = t.dynamic
              /\ dynamic_table_size = t.dynamic_table_size
              /\ max_dynamic_table_size = t.max
              /\ peer = [NoPeer EXCEPT
                            !.built = TRUE, !.supplied = dyn,
                            !.dynamic = t.dynamic,
                            !.dynamic_table_size = t.dynamic_table_size,
                            !.shares = [one |-> keeps_list(dyn), two |-> keeps_list(dyn)]]
    /\ last = NoCall
    /\ ThreadsIdle
    /\ NoFrames

\* one.append_header(header): list.append acts on the list object, which
\* the caller and the other table may hold as well
AppendOne ==
    \E header \in Headers :
        LET r == append_header(dynamic, dynamic_table_size,
                               max_dynamic_table_size, header)
            inplace == /\ peer.shares.one
                       /\ ~rebinds(dynamic_table_size, max_dynamic_table_size,
                                   32 + Len(header[1]) + Len(header[2]))
        IN  /\ Len(r.dynamic) <= MaxDyn \/ Len(r.dynamic) <= Len(dynamic)
            /\ dynamic' = r.dynamic
            /\ peer' = [peer EXCEPT
                           !.supplied = IF inplace THEN r.dynamic ELSE @,
                           !.dynamic = IF inplace /\ peer.shares.two THEN r.dynamic ELSE @,
                           !.shares = [@ EXCEPT !.one = inplace],
                           !.who = "one",
                           !.pre = [supplied |-> peer.supplied, one |-> dynamic,
                                    two |-> peer.dynamic]]
            /\ last' = Call("append_header", header, 0, Returned(NoHeader, r.ret, <<>>))
            /\ UNCHANGED <<dynamic_table_size, max_dynamic_table_size>>
            /\ UNCHANGED <<threadVars, frameVars, payloadVars, huff>>

\* two.append_header(header)
AppendTwo ==
    \E header \in Headers :
        LET r == append_header(peer.dynamic, peer.dynamic_table_size,
                               max_dynamic_table_size, header)
            inplace == /\ peer.shares.two
                       /\ ~rebinds(peer.dynamic_table_size, max_dynamic_table_size,
                                   32 + Len(header[1]) + Len(header[2]))
        IN  /\ Len(r.dynamic) <= MaxDyn \/ Len(r.dynamic) <= Len(peer.dynamic)
            /\ dynamic' = IF inplace /\ peer.shares.one THEN r.dynamic ELSE dynamic
            /\ peer' = [peer EXCEPT
                           !.supplied = IF inplace THEN r.dynamic ELSE @,
                           !.dynamic = r.dynamic,
                           !.shares = [@ EXCEPT !.two = inplace],
                           !.who = "two",
                           !.pre = [supplied |-> peer.supplied, one |-> dynamic,
                                    two |-> peer.dynamic]]
            /\ UNCHANGED <<dynamic_table_size, max_dynamic_table_size, last>>
            /\ UNCHANGED <<threadVars, frameVars, payloadVars, huff>>

NextAlias ==
    \/ AppendOne
    \/ AppendTwo

SpecAlias == InitAlias /\ [][NextAlias]_vars

(***************************************************************************)
(* Properties of the index table.                                          *)
(***************************************************************************)
Appended == last.op = "append_header"

\* C1: after every sequence of append_header calls the sum of
\* len(name) + len(value) + 32 over the entries of the dynamic table is at
\* most max_dynamic_table_size.
C1_SizeBound == table_size(dynamic) <= max_dynamic_table_size

\* C2: append_header of an entry larger than max_dynamic_table_size leaves
\* the dynamic table empty, whatever it held: every entry is removed and the
\* new one is not inserted.
C2_OversizeEmpties ==
    (Appended /\ entry_size(last.hdr) > last.premax)
        => (dynamic = <<>> /\ ~last.ret.flag)

C2_Witness ==
    /\ Appended
    /\ entry_size(last.hdr) > last.premax
    /\ last.pre # <<>>
    /\ dynamic = <<>>

\* whether the appended entry fits once the k oldest entries are gone
FitsAfter(k) ==
    table_size(PySliceFrom(last.pre, k)) + entry_size(last.hdr) <= last.premax

\* C3: when append_header has to evict, the entries removed are exactly the
\* oldest ones (the front of the list, which append_header extends at the
\* end), no more of them than needed for current size + entry size <= maximum,
\* and the survivors keep their order, followed by the new entry.
C3_FifoEviction ==
    (Appended /\ entry_size(last.hdr) <= last.premax /\ ~FitsAfter(0))
        => \E k \in 1..Len(last.pre) :
              /\ dynamic = Append(PySliceFrom(last.pre, k), last.hdr)
              /\ FitsAfter(k)
              /\ ~FitsAfter(k - 1)

\* C4: the dynamic table is indexed newest first: right after append_header(h)
\* inserts h, decode_indexed(static + 1) returns h and every surviving entry
\* is found one index higher than before.
C4_NewestFirst ==
    (Appended /\ last.ret.flag)
        => /\ decode_indexed(dynamic, StaticLen + 1) = Returned(last.hdr, FALSE, <<>>)
           /\ \A i \in 1..(Len(dynamic) - 1) :
                  decode_indexed(dynamic, StaticLen + i + 1)
                      = decode_indexed(last.pre, StaticLen + i)

\* C5: decode_indexed(index) succeeds exactly when
\* 1 <= index <= static + dynamic length and fails with HpackDecodeError
\* otherwise; an index in 1..61 resolves in the static table, index 1 to
\* (":authority", "").
C5_DecodeRange ==
    last.op = "decode_indexed"
        => /\ StaticLen = 61
           /\ last.ret.ok <=> (1 <= last.idx /\ last.idx <= StaticLen + Len(dynamic))
           /\ ~last.ret.ok => last.ret.err = "HTTP2HpackDecodeError"
           /\ (1 <= last.idx /\ last.idx <= StaticLen)
                  => last.ret.val = hpack_static_table[last.idx]
           /\ last.idx = 1 => last.ret.val = <<":authority", "">>

\* The integer an octet string carries in HPACK's 7-bit prefix form
\* (RFC 7541, section 5.1): a prefix below 127 is the value; a prefix of 127
\* is followed by octets of 7 bits each, least significant first, the last
\* with its high bit clear.  -1 when the octets are no complete integer.
RECURSIVE PrefixContinuation(_, _, _)
PrefixContinuation(octets, i, mult) ==
    IF i > Len(octets) THEN 0 - 1
    ELSE IF octets[i] < 128
    THEN IF i = Len(octets) THEN octets[i] * mult ELSE 0 - 1
    ELSE LET rest == PrefixContinuation(octets, i + 1, mult * 128)
         IN  IF rest < 0 THEN 0 - 1 ELSE (octets[i] % 128) * mult + rest

PrefixInt7(octets) ==
    IF octets = <<>> THEN 0 - 1
    ELSE IF octets[1] % 128 < 127
    THEN IF Len(octets) = 1 THEN octets[1] % 128 ELSE 0 - 1
    ELSE LET rest == PrefixContinuation(octets, 2, 1)
         IN  IF rest < 0 THEN 0 - 1 ELSE 127 + rest

\* C6: encode_indexed(index) fails with HpackEncodeError when index < 1 or
\* index > static + dynamic length; for every other index, those from 127 up
\* included, its first octet has the high bit set and the 7-bit prefix
\* decoding of its octets is the index.
C6_EncodeIndexed ==
    last.op = "encode_indexed"
        => IF last.idx < 1 \/ last.idx > StaticLen + Len(dynamic)
           THEN ~last.ret.ok /\ last.ret.err = "HTTP2HpackEncodeError"
           ELSE /\ last.ret.ok
                /\ last.ret.out # <<>>
                /\ last.ret.out[1] >= 128
                /\ PrefixInt7(last.ret.out) = last.idx

\* C7: lowering max_dynamic_table_size on a live table evicts entries at once
\* until the sum of the entry sizes is at most the new maximum.
C7_ShrinkEvicts ==
    (last.op = "init" /\ last.idx < last.premax)
        => /\ max_dynamic_table_size = last.idx
           /\ table_size(dynamic) <= max_dynamic_table_size

\* C8: the eviction and the insertion of append_header are one step to a
\* concurrent reader: a decode_indexed, encode_indexed or inside_index_table
\* call returns what it returns on the table before the append_header call
\* or on the table after it.
C8_AtomicAppend ==
    seen.op # "none"
        => \/ seen.ret = ReadOf(seen.op, seen.pre, seen.hdr, seen.idx)
           \/ seen.ret = ReadOf(seen.op, seen.post, seen.hdr, seen.idx)

(***************************************************************************)
(* Properties of the frame header codec.                                   *)
(***************************************************************************)
\* C9: for every valid frame header h, parse_frame_header(h.serialize())
\* yields a header with the same type, length, flags and stream id.
C9_HeaderRoundTrip ==
    (built.ok /\ parsed.done /\ wire = frame_header_serialize(built.hdr))
        => (parsed.ok /\ parsed.hdr = built.hdr)

\* C10: parsing a 9-octet header whose stream-identifier word has its
\* reserved high bit set succeeds with the low 31 bits as stream id, so that
\* every parsed header has a stream id of at most 2^31 - 1.
C10_ReservedBitMasked ==
    /\ (parsed.done /\ Len(wire) >= HTTP_V2_FRAME_HEADER_SIZE /\ wire[6] >= 128)
          => /\ parsed.ok
             /\ parsed.hdr.sid = unpack_I(wire[6], wire[7], wire[8], wire[9]).low31
    /\ parsed.ok => parsed.hdr.sid <= HTTP_V2_STREAM_ID_MASK

\* C11: flag validation accepts a flags octet exactly when it has no bit
\* outside 0x2D (flags & ~0x2D = 0) and rejects every other octet with a
\* frame error, for a header built by the constructor and for a parsed one.
C11_FlagValidation ==
    /\ ( asked.done /\ asked.valid /\ asked.flags # None )
          => ( /\ (built.ok <=> (BitAnd(asked.flags, 255 - 45) = 0))
               /\ (~built.ok => built.err = "HTTP2FrameError") )
    /\ ( parsed.done /\ Len(wire) >= 9 /\ wire[4] \in 0..9 )
          => ( /\ (parsed.ok <=> (BitAnd(wire[5], 255 - 45) = 0))
               /\ (~parsed.ok => parsed.err = "HTTP2FrameError") )

\* C12: parsing a DATA frame whose header has PADDED and length L, and whose
\* payload starts with a pad length p, 0 <= p < L, succeeds with exactly
\* the L - 1 - p octets after the pad length as data and the last p octets
\* as padding (no padding when p = 0).
C12_PaddedData ==
    ( /\ call.op = "HTTP2DataFrame.parse_frame"
      /\ call.hdr.type = 0
      /\ BitAnd(call.hdr.flags, 8) = 8
      /\ call.hdr.length > 0
      /\ Len(call.payload) = call.hdr.length
      /\ call.payload[1] < call.hdr.length )
    => LET L == call.hdr.length
           p == call.payload[1]
       IN  /\ frame.ok
           /\ Len(frame.data) = L - 1 - p
           /\ frame.data = SubSeq(call.payload, 2, L - p)
           /\ IF p = 0 THEN frame.pad \in { NoPad, <<>> }
              ELSE frame.pad = SubSeq(call.payload, L - p + 1, L)

\* C13: parse_frame of the DATA, PRIORITY, RST_STREAM, SETTINGS and PING
\* parsers fails with a frame error whenever the header's type is not the
\* parser's or the payload is not header.length octets long, a PRIORITY
\* header whose length is not 5 included.
C13_ParseRejects ==
    LET Rejects(op, type) ==
            ( /\ call.op = op
              /\ \/ call.hdr.type # type
                 \/ Len(call.payload) # call.hdr.length
                 \/ type = 2 /\ call.hdr.length # 5 )
            => ( ~frame.ok /\ frame.err = "HTTP2FrameError" )
    IN  /\ Rejects("HTTP2DataFrame.parse_frame", 0)
        /\ Rejects("HTTP2PriorityFrame.parse_frame", 2)
        /\ Rejects("HTTP2RSTStreamFrame.parse_frame", 3)
        /\ Rejects("HTTP2SettingsFrame.parse_frame", 4)
        /\ Rejects("HTTP2PingFrame.parse_frame", 6)

\* C14: the PRIORITY constructor rejects stream id 0, a dependency equal to
\* the frame's own stream id, and a weight outside 1..256; with a PRIORITY
\* header of a nonzero stream id, another stream as dependency and a weight
\* in 1..256 it accepts.
C14_PriorityConstructor ==
    call.op = "HTTP2PriorityFrame"
    => /\ ( \/ call.hdr.sid = 0
            \/ call.depend = [top |-> 0, low31 |-> call.hdr.sid]
            \/ call.weight \notin 1..256 )
          => ~frame.ok
       /\ ( /\ call.hdr.type = 2
            /\ call.hdr.sid # 0
            /\ call.depend.top = 0
            /\ call.depend.low31 \in 0..2147483647
            /\ call.depend.low31 # call.hdr.sid
            /\ call.weight \in 1..256 )
          => ( frame.ok /\ frame.depend = call.depend /\ frame.weight = call.weight )

\* a PRIORITY frame of weight 256 was built
C14_Witness ==
    /\ call.op = "HTTP2PriorityFrame"
    /\ call.hdr.type = 2
    /\ call.weight = 256
    /\ frame.ok

\* C15: serialize() of every PRIORITY frame the constructor accepted
\* succeeds with a payload of 5 octets, and parse_frame on these octets and
\* the same header gives the same dependency, weight and exclusive bit.
C15_PriorityRoundTrip ==
    ( call.op = "HTTP2PriorityFrame" /\ frame.ok /\ serialized.done )
    => /\ serialized.ok
       /\ Len(serialized.out) = 5
       /\ LET back == priority_parse_frame(call.hdr, serialized.out)
          IN  /\ back.ok
              /\ back.depend = call.depend
              /\ back.weight = call.weight
              /\ back.excl = call.excl

\* C16: an RST_STREAM frame (header type 3, length 4) is accepted by the
\* constructor and by parse_frame exactly when its stream id is nonzero and
\* its error code is in 0x0..0xd, and then holds that code; stream id 0 or a
\* larger code is a frame error.
C16_RstStream ==
    /\ ( call.op = "HTTP2RSTStreamFrame" /\ call.hdr.type = 3 /\ call.hdr.length = 4 )
       => LET good == /\ call.hdr.sid # 0
                      /\ call.code.top = 0
                      /\ call.code.low31 \in 0..13
          IN  /\ frame.ok <=> good
              /\ frame.ok => ( frame.code.top = 0 /\ frame.code.low31 = call.code.low31 )
              /\ ~frame.ok => frame.err = "HTTP2FrameError"
    /\ ( /\ call.op = "HTTP2RSTStreamFrame.parse_frame"
         /\ call.hdr.type = 3 /\ call.hdr.length = 4 /\ Len(call.payload) = 4 )
       => LET code == unpack_I(call.payload[1], call.payload[2],
                               call.payload[3], call.payload[4])
              good == call.hdr.sid # 0 /\ code.top = 0 /\ code.low31 \in 0..13
          IN  /\ frame.ok <=> good
              /\ frame.ok => ( frame.code.top = 0 /\ frame.code.low31 = code.low31 )
              /\ ~frame.ok => frame.err = "HTTP2FrameError"

\* C17: constructing or parsing a SETTINGS frame fails whenever the header
\* has ACK and a nonzero length, or a length that is no multiple of 6, or a
\* nonzero stream id.
C17_SettingsRejects ==
    ( /\ call.op \in { "HTTP2SettingsFrame", "HTTP2SettingsFrame.parse_frame" }
      /\ \/ BitAnd(call.hdr.flags, 1) = 1 /\ call.hdr.length # 0
         \/ call.hdr.length % 6 # 0
         \/ call.hdr.sid # 0 )
    => ~frame.ok

\* a SETTINGS header with ACK and six octets announced went to the
\* constructor, which refused it
C17_Witness ==
    /\ call.op = "HTTP2SettingsFrame"
    /\ call.hdr.type = 4
    /\ call.hdr.sid = 0
    /\ BitAnd(call.hdr.flags, 1) = 1
    /\ call.hdr.length = 6
    /\ ~frame.ok

\* C18: parse_frame accepts a well-formed SETTINGS frame (type 4, stream 0,
\* no ACK, 6n octets, defined setting ids) with its n (id, value) entries in
\* wire order, and serialize() of the result gives the payload back.
C18_SettingsRoundTrip ==
    LET n == call.hdr.length \div 6
        Id(i) == call.payload[6 * i - 5] * 256 + call.payload[6 * i - 4]
        Value(i) == unpack_I(call.payload[6 * i - 3], call.payload[6 * i - 2],
                             call.payload[6 * i - 1], call.payload[6 * i])
    IN  ( /\ call.op = "HTTP2SettingsFrame.parse_frame"
          /\ call.hdr.type = 4
          /\ call.hdr.sid = 0
          /\ BitAnd(call.hdr.flags, 1) = 0
          /\ call.hdr.length % 6 = 0
          /\ Len(call.payload) = call.hdr.length
          /\ \A i \in 1..n : Id(i) \in 1..6 )
        => /\ frame.ok
           /\ Len(frame.settings) = n
           /\ \A i \in 1..n : frame.settings[i] = << Id(i), Value(i) >>
           /\ settings_serialize(frame).ok
           /\ settings_serialize(frame).out = call.payload

\* C19: parse_frame accepts a PING header of stream 0 and length 8 with any
\* 8 octets, and serialize() of the parsed frame gives these 8 octets; a
\* PING header of another stream or another length is refused.
C19_PingRoundTrip ==
    ( call.op = "HTTP2PingFrame.parse_frame" /\ call.hdr.type = 6 )
    => /\ ( call.hdr.sid = 0 /\ call.hdr.length = 8 /\ Len(call.payload) = 8 )
          => /\ frame.ok
             /\ serialized.done => ( serialized.ok /\ serialized.out = call.payload )
       /\ ( call.hdr.sid # 0 \/ call.hdr.length # 8 ) => ~frame.ok

\* C20: for every text s of printable ASCII characters, decode(encode(s))
\* is s, and decode(encode(s, lower=true)) is s.lower().
C20_HuffmanRoundTrip ==
    huff.decoded
    => /\ huff.ok
       /\ huff.out = IF huff.lower THEN Lowered(huff.text) ELSE huff.text

\* a text with capitals went through encode(s, lower=true) and decode
C20_Witness ==
    /\ huff.decoded
    /\ huff.lower
    /\ Len(huff.text) = MaxText
    /\ Lowered(huff.text) # huff.text
    /\ Len(huff.code) > 0

\* C21: a HEADERS frame built from a header collection keeps every pair
\* supplied, its name lowercased, in the order supplied, with no pair
\* merged or overwritten when names repeat or differ only in case, and adds
\* :authority, :method and :path with the values supplied.
C21_HeadersKept ==
    call.op = "HTTP2HeadersFrame"
    => LET items  == call.headers.items
           Pseudo(pair) == pair[1] \in { PSEUDO_AUTHORITY, PSEUDO_METHOD, PSEUDO_PATH }
           Plain(pair)  == ~Pseudo(pair)
       IN  /\ frame.ok
           /\ SelectSeq(frame.header_block, Plain)
                = [i \in 1..Len(items) |-> << Lowered(items[i][1]), items[i][2] >>]
           /\ \E i \in 1..Len(frame.header_block) :
                  frame.header_block[i] = << PSEUDO_AUTHORITY, call.authority >>
           /\ \E i \in 1..Len(frame.header_block) :
                  frame.header_block[i] = << PSEUDO_METHOD, call.method >>
           /\ \E i \in 1..Len(frame.header_block) :
                  frame.header_block[i] = << PSEUDO_PATH, call.path >>

\* C22: append_header of an entry that fits in the space left, the exact fit
\* current size + entry size = max_dynamic_table_size included, evicts
\* nothing: every entry present before the call is still present and the new
\* entry is added.
C22_FitEvictsNothing ==
    (Appended /\ table_size(last.pre) + entry_size(last.hdr) <= last.premax)
        => /\ dynamic = Append(last.pre, last.hdr)
           /\ last.ret.flag

\* C23: the size counter of the table, the value __check_dynamic_table
\* compares against the maximum, equals the sum of len(name) + len(value) + 32
\* over the entries of the dynamic table, after construction and after every
\* append_header, whether the call inserted, evicted or emptied the table.
C23_CounterTracksSize == dynamic_table_size = table_size(dynamic)

\* what decode_indexed, encode_indexed and inside_index_table return on a
\* table holding dyn
Answers(dyn) ==
    [decode |-> [index \in Indexes |-> decode_indexed(dyn, index)],
     encode |-> [index \in Indexes |-> encode_indexed(dyn, index)],
     inside |-> [header \in Headers |-> inside_index_table(dyn, header)]]

\* C24: two tables share no mutable state: append_header on one never
\* changes what decode_indexed, encode_indexed or inside_index_table return
\* on the other, even when both were built from the same initial list, and
\* never changes the list the caller passed in.
C24_NoSharedState ==
    /\ peer.who = "one" => Answers(peer.dynamic) = Answers(peer.pre.two)
    /\ peer.who = "two" => Answers(dynamic) = Answers(peer.pre.one)
    /\ peer.who # "none" => peer.supplied = peer.pre.supplied

====
